---- MODULE Spec2Model ----
(***************************************************************************)
(* A model of doc_gen_script.py: acquisition of the working directory,     *)
(* breadth-first file discovery, chunking, the two-phase summarization of  *)
(* every file and the final clean-up.                                      *)
(*                                                                         *)
(* Strings of the program are TLA+ strings; a path is the sequence of its  *)
(* segments.  A file's bytes are a string in which "#" stands for a byte   *)
(* that is not valid UTF-8.                                                *)
(***************************************************************************)
EXTENDS Integers, Sequences, FiniteSets, TLC

VARIABLES
    pc,               \* position of main() (or of the function under study)
    args,             \* parse_args(): [tmp, keep]
    exists,           \* names in the parent of --tmp that exist before the run
    tree,             \* the directory tree Repo.clone_from puts at repo_root
    counter,          \* get_unique_repo_path: counter
    dest,             \* clone_repo: dest_path (its name in the parent directory)
    dirstate,         \* the directory dest on disk: "absent", "present", "removed"
    repo_root,        \* main: repo_root (a path), <<>> before clone_repo returns
    queue,            \* find_code_files_bfs: queue
    files,            \* find_code_files_bfs: files
    faults,           \* directories whose os.scandir raised PermissionError
    code_files,       \* main: code_files
    i,                \* main: index of the file loop (1-based)
    file_summaries,   \* main: file_summaries, an insertion-ordered dict
    blocks,           \* ollama_summarize_text_blocks: blocks
    chunk_summaries,  \* ollama_summarize_text_blocks: chunk_summaries
    log,              \* history: backend calls, their returns and the sleeps
    outcome,          \* how the run ended ("" while it runs)
    ct,               \* chunk_text under study: [text, size, out, done]
    gen,              \* ollama_generate: [resp, out, done], resp the response in hand
    scanned,          \* history: the directories dequeued by find_code_files_bfs
    removed           \* history: the names in the parent of --tmp removed by the run

vars == <<pc, args, exists, tree, counter, dest, dirstate, repo_root, queue, files, faults,
          code_files, i, file_summaries, blocks, chunk_summaries, log,
          outcome, ct, gen, scanned, removed>>

(***************************************************************************)
(* Bounds of the model.                                                    *)
(***************************************************************************)
MaxLen == 5            \* longest text given to chunk_text on its own
MaxChunk == 3          \* largest chunk size given to chunk_text on its own
CHUNK_CHAR_SIZE == 2   \* the program's 8000, scaled to the model's file sizes
MaxSuffix == 1         \* P, P_1 .. P_MaxSuffix may exist before the run
MaxEntries == 2        \* entries (files and directories) of a cloned tree
MaxBfsEntries == 3     \* entries of a tree given to find_code_files_bfs alone
MaxDepth == 3          \* deepest entry below the root
MaxSize == 2           \* largest file of a tree given to find_code_files_bfs alone
MaxLines == 3          \* most lines of a response given to ollama_generate alone
MaxBlocks == 2         \* most blocks given to ollama_summarize_text_blocks alone

(***************************************************************************)
(* Program constants.                                                      *)
(***************************************************************************)
CODE_EXTENSIONS ==
    {".py", ".js", ".jsx", ".ts", ".tsx", ".java", ".go", ".c", ".cpp", ".hpp",
     ".cs", ".rb", ".php", ".html", ".css", ".scss", ".yaml",
     ".yml", ".sh", ".rs", ".prisma"}

EXCLUDE_DIRS ==
    {"node_modules", "venv", ".venv", "env", ".env",
     "build", "dist", "__pycache__", ".git"}

SENTINEL == "[empty or binary file]"
OLLAMA_ERROR == "[Error calling Ollama]"
GENUINE == "summary"

(***************************************************************************)
(* String helpers.                                                         *)
(***************************************************************************)
Min(a, b) == IF a <= b THEN a ELSE b

Char(s, k) == SubSeq(s, k, k)

UpperChars == "ABCDEFGHIJKLMNOPQRSTUVWXYZ"
LowerChars == "abcdefghijklmnopqrstuvwxyz"

\* str.lower() on one character
LowerChar(c) ==
    IF \E k \in 1..26 : Char(UpperChars, k) = c
    THEN Char(LowerChars, CHOOSE k \in 1..26 : Char(UpperChars, k) = c)
    ELSE c

RECURSIVE lower(_)
lower(s) == IF s = "" THEN "" ELSE LowerChar(Char(s, 1)) \o lower(SubSeq(s, 2, Len(s)))

RECURSIVE Join(_)
Join(ss) == IF ss = <<>> THEN "" ELSE Head(ss) \o Join(Tail(ss))

\* str.strip(): leading and trailing whitespace removed
IsSpace(c) == c \in {" ", "\t", "\n", "\r"}
RECURSIVE lstrip(_)
lstrip(s) == IF s # "" /\ IsSpace(Char(s, 1)) THEN lstrip(SubSeq(s, 2, Len(s))) ELSE s
RECURSIVE rstrip(_)
rstrip(s) == IF s # "" /\ IsSpace(Char(s, Len(s))) THEN rstrip(SubSeq(s, 1, Len(s) - 1)) ELSE s
\* faulty variant: nothing is removed
strip_none(s) == s
strip(s) == rstrip(lstrip(s))

RECURSIVE Strings(_, _)
Strings(alphabet, n) ==
    IF n = 0 THEN {""}
    ELSE LET shorter == Strings(alphabet, n - 1)
         IN  shorter \cup {s \o c : s \in shorter, c \in alphabet}

(***************************************************************************)
(* chunk_text                                                              *)
(***************************************************************************)
\* range(start, stop, step) as a sequence
RECURSIVE range(_, _, _)
range(start, stop, step) ==
    IF start >= stop THEN <<>> ELSE <<start>> \o range(start + step, stop, step)

\* text[a:b] for 0 <= a <= b
Slice(text, a, b) == SubSeq(text, a + 1, Min(b, Len(text)))

\* faulty variant: the remainder after the last full slice is dropped
chunk_text_full_only(text, size) ==
    LET starts == range(0, Len(text) - size + 1, size)
    IN  [k \in 1..Len(starts) |-> Slice(text, starts[k], starts[k] + size)]

\* faulty variant: every slice runs one character into the next one
chunk_text_overlap(text, size) ==
    LET starts == range(0, Len(text), size)
    IN  [k \in 1..Len(starts) |-> Slice(text, starts[k], starts[k] + size + 1)]

chunk_text(text, size) ==
    IF text = "" THEN <<>>
    ELSE LET starts == range(0, Len(text), size)
         IN  [k \in 1..Len(starts) |-> Slice(text, starts[k], starts[k] + size)]

(***************************************************************************)
(* Paths and the file system.                                              *)
(***************************************************************************)
\* os.path.splitext(name)[1]: from the last dot on, unless only dots precede it
splitext_ext(name) ==
    LET dots == {k \in 1..Len(name) : Char(name, k) = "."}
    IN  IF dots = {} THEN ""
        ELSE LET d == CHOOSE k \in dots : \A m \in dots : m <= k
             IN  IF \E k \in 1..(d - 1) : Char(name, k) # "."
                 THEN SubSeq(name, d, Len(name))
                 ELSE ""

\* os.path.relpath(p, root) for p below root
relpath(p, root) == SubSeq(p, Len(root) + 1, Len(p))

\* the directory the run starts in; --tmp is resolved against it
Cwd == <<"work">>

\* f"{path.name}_{counter}"
Suffixed(name, k) == name \o "_" \o ToString(k)

TmpNames == {"Code_Repository", "build"}
DirNames == {"src", "build"}
FileNames == {"a.py", "b.JS", ".env"}
\* "": zero bytes; "x#": not UTF-8 after a valid byte; " ": only whitespace;
\* "x": one chunk; "x y": two chunks
Contents == {"", "x#", " ", "x", "x y"}
SizeContents == {Join([k \in 1..n |-> "x"]) : n \in 0..MaxSize}

EntryName(e) == e.path[Len(e.path)]

\* the entries that can be added to tree t: below the root or a directory of t
Addable(t, contents) ==
    LET parents == {<<>>} \cup {e.path : e \in {d \in t : d.dir}}
        taken == {e.path : e \in t}
        dirs == {[path |-> Append(p, n), dir |-> TRUE, data |-> ""] :
                    p \in parents, n \in DirNames}
        fils == {[path |-> Append(p[1], p[2]), dir |-> FALSE, data |-> c] :
                    p \in parents \X FileNames, c \in contents}
    IN  {e \in dirs \cup fils : Len(e.path) <= MaxDepth /\ e.path \notin taken}

RECURSIVE Trees(_, _)
Trees(n, contents) ==
    IF n = 0 THEN {{}}
    ELSE LET smaller == Trees(n - 1, contents)
         IN  smaller \cup UNION {{t \cup {e} : e \in Addable(t, contents)} : t \in smaller}

RunTrees == Trees(MaxEntries, Contents)
BfsTrees == Trees(MaxBfsEntries, SizeContents)

\* the entry of the tree at absolute path p
EntryAt(p) == CHOOSE e \in tree : e.path = relpath(p, repo_root)

\* os.scandir(d): the entries directly inside directory d
Children(d) ==
    LET r == relpath(d, repo_root)
    IN  {e \in tree : Len(e.path) = Len(r) + 1 /\ SubSeq(e.path, 1, Len(r)) = r}

getsize(p) == Len(EntryAt(p).data)

Perms(S) ==
    {f \in [1..Cardinality(S) -> S] :
        \A a, b \in 1..Cardinality(S) : a # b => f[a] # f[b]}

(***************************************************************************)
(* get_unique_repo_path and clone_repo                                     *)
(***************************************************************************)
\* Path(base_path).resolve(); path.exists() is false: return str(path)
UniqueFree ==
    /\ pc = "start"
    /\ args.tmp \notin exists
    /\ dest' = args.tmp
    /\ pc' = "clone"
    /\ UNCHANGED <<args, exists, tree, counter, dirstate, repo_root, queue, files,
                   faults, code_files, i, file_summaries, blocks, chunk_summaries,
                   log, outcome, ct,
                   gen, scanned, removed>>

\* path.exists() is true: counter = 1 and the loop starts
UniqueTaken ==
    /\ pc = "start"
    /\ args.tmp \in exists
    /\ counter' = 1
    /\ pc' = "probe"
    /\ UNCHANGED <<args, exists, tree, dest, dirstate, repo_root, queue, files,
                   faults, code_files, i, file_summaries, blocks, chunk_summaries,
                   log, outcome, ct,
                   gen, scanned, removed>>

\* faulty variant: the counter skips a suffix
NextCounterSkips(c) == c + 2

\* counter += 1
NextCounter(c) == c + 1

\* one iteration of "while True": new_path exists, counter += 1
ProbeTaken ==
    /\ pc = "probe"
    /\ Suffixed(args.tmp, counter) \in exists
    /\ counter' = NextCounter(counter)
    /\ UNCHANGED <<pc, args, exists, tree, dest, dirstate, repo_root, queue, files,
                   faults, code_files, i, file_summaries, blocks, chunk_summaries,
                   log, outcome, ct,
                   gen, scanned, removed>>

\* one iteration of "while True": new_path does not exist, return it
ProbeFree ==
    /\ pc = "probe"
    /\ Suffixed(args.tmp, counter) \notin exists
    /\ dest' = Suffixed(args.tmp, counter)
    /\ pc' = "clone"
    /\ UNCHANGED <<args, exists, tree, counter, dirstate, repo_root, queue, files,
                   faults, code_files, i, file_summaries, blocks, chunk_summaries,
                   log, outcome, ct,
                   gen, scanned, removed>>

\* Repo.clone_from succeeds: the tree is on disk at dest, clone_repo returns
CloneOk ==
    /\ pc = "clone"
    /\ \E t \in RunTrees : tree' = t
    /\ dirstate' = "present"
    /\ repo_root' = Append(Cwd, dest)
    /\ pc' = "try"
    /\ UNCHANGED <<args, exists, counter, dest, queue, files, faults, code_files, i,
                   file_summaries, blocks, chunk_summaries, log, outcome, ct,
                   gen, scanned, removed>>

\* Repo.clone_from raises: main is left before its try block is entered;
\* what was written to dest so far stays
CloneFail ==
    /\ pc = "clone"
    /\ \E d \in {"absent", "present"} : dirstate' = d
    /\ outcome' = "clone_failed"
    /\ pc' = "done"
    /\ UNCHANGED <<args, exists, tree, counter, dest, repo_root, queue, files, faults,
                   code_files, i, file_summaries, blocks, chunk_summaries, log, ct,
                   gen, scanned, removed>>

(***************************************************************************)
(* find_code_files_bfs                                                     *)
(***************************************************************************)
\* main enters its try block (detect_top_level_info only reads) and calls
\* find_code_files_bfs(repo_root): files = [], queue = deque([root])
BfsEnter ==
    /\ pc = "try"
    /\ files' = <<>>
    /\ queue' = <<repo_root>>
    /\ pc' = "bfs"
    /\ UNCHANGED <<args, exists, tree, counter, dest, dirstate, repo_root, faults,
                   code_files, i, file_summaries, blocks, chunk_summaries, log,
                   outcome, ct,
                   gen, scanned, removed>>

\* faulty variant: every directory is enqueued
EnqueuedAll(e) == e.dir

\* entry.is_dir() and entry.name not in EXCLUDE_DIRS
Enqueued(e) == e.dir /\ EntryName(e) \notin EXCLUDE_DIRS

\* faulty variant: the extension is compared as it is spelt
CollectedCaseSensitive(e) == ~e.dir /\ splitext_ext(EntryName(e)) \in CODE_EXTENSIONS

\* not entry.is_dir() and splitext(entry.name)[1].lower() in CODE_EXTENSIONS
Collected(e) == ~e.dir /\ lower(splitext_ext(EntryName(e))) \in CODE_EXTENSIONS

\* entry.path = os.path.join(current_dir, entry.name) of every entry of s
PathsOf(current_dir, s) == [k \in 1..Len(s) |-> Append(current_dir, EntryName(s[k]))]

\* what the for loop appends to queue, in listing order
EnqueuedPaths(current_dir, listing) == PathsOf(current_dir, SelectSeq(listing, Enqueued))

\* what the for loop appends to files, in listing order
CollectedPaths(current_dir, listing) == PathsOf(current_dir, SelectSeq(listing, Collected))

\* one iteration of "while queue": the directory is listed, in any order
BfsScan ==
    /\ pc = "bfs"
    /\ queue # <<>>
    /\ LET current_dir == Head(queue)
       IN  \E listing \in Perms(Children(current_dir)) :
              /\ queue' = Tail(queue) \o EnqueuedPaths(current_dir, listing)
              /\ files' = files \o CollectedPaths(current_dir, listing)
    /\ scanned' = Append(scanned, Head(queue))
    /\ UNCHANGED <<pc, args, exists, tree, counter, dest, dirstate, repo_root, faults,
                   code_files, i, file_summaries, blocks, chunk_summaries, log,
                   outcome, ct, gen, removed>>

\* one iteration of "while queue": os.scandir raises PermissionError, continue
BfsDenied ==
    /\ pc = "bfs"
    /\ queue # <<>>
    /\ queue' = Tail(queue)
    /\ faults' = faults \cup {Head(queue)}
    /\ scanned' = Append(scanned, Head(queue))
    /\ UNCHANGED <<pc, args, exists, tree, counter, dest, dirstate, repo_root, files,
                   code_files, i, file_summaries, blocks, chunk_summaries, log,
                   outcome, ct, gen, removed>>

\* one iteration of "while queue": os.scandir raises another OSError (the
\* directory is gone, or cannot be read); only PermissionError is caught, so
\* the exception leaves find_code_files_bfs and reaches main's finally
BfsRaise ==
    /\ pc = "bfs"
    /\ queue # <<>>
    /\ outcome' = "error"
    /\ pc' = "finally"
    /\ scanned' = Append(scanned, Head(queue))
    /\ UNCHANGED <<args, exists, tree, counter, dest, dirstate, repo_root, queue,
                   files, faults, code_files, i, file_summaries, blocks,
                   chunk_summaries, log, ct, gen, removed>>

\* files.sort(key=lambda p: os.path.getsize(p)): list.sort is stable and
\* ascending by key; x goes after every element whose key is not larger
RECURSIVE InsertBySize(_, _)
InsertBySize(sorted, x) ==
    IF sorted = <<>> THEN <<x>>
    ELSE IF getsize(x) < getsize(Head(sorted)) THEN <<x>> \o sorted
    ELSE <<Head(sorted)>> \o InsertBySize(Tail(sorted), x)

\* faulty variant: the list is returned in discovery order
Unsorted(fs) == fs

RECURSIVE SortedFiles(_)
SortedFiles(fs) ==
    IF fs = <<>> THEN <<>>
    ELSE InsertBySize(SortedFiles(SubSeq(fs, 1, Len(fs) - 1)), fs[Len(fs)])

\* the queue is empty: files.sort(...); return files
BfsReturn ==
    /\ pc = "bfs"
    /\ queue = <<>>
    /\ code_files' = SortedFiles(files)
    /\ pc' = "check"
    /\ UNCHANGED <<args, exists, tree, counter, dest, dirstate, repo_root, queue,
                   files, faults, i, file_summaries, blocks, chunk_summaries, log,
                   outcome, ct,
                   gen, scanned, removed>>

(***************************************************************************)
(* read_file, the backend and the ordered dict                             *)
(***************************************************************************)
\* faulty variant: the bytes are returned undecoded
read_file_raw(p) == EntryAt(p).data

\* open(path, "r", encoding="utf-8").read(); any exception gives ""
read_file(p) ==
    LET bytes == EntryAt(p).data
    IN  IF \E k \in 1..Len(bytes) : Char(bytes, k) = "#" THEN "" ELSE bytes

(***************************************************************************)
(* ollama_generate                                                         *)
(*                                                                         *)
(* What the backend does with one request is a record                      *)
(*   [fail, lines, broken]:                                                *)
(* fail is "timeout" or "connection" when requests.post raises, "http"     *)
(* when raise_for_status does, "none" otherwise; lines are the lines       *)
(* resp.iter_lines() yields, in arrival order; broken says that the        *)
(* transport fails after them instead of ending the stream.  A line is     *)
(*   <<"blank">>      an empty keep-alive line ("if line" is false),       *)
(*   <<"frag", s>>    a JSON object whose "response" is s,                 *)
(*   <<"nokey">>      a JSON object without "response",                    *)
(*   <<"bad">>        bytes json.loads raises on.                          *)
(***************************************************************************)
\* the for loop over resp.iter_lines(): [raised, output]
RECURSIVE Consume(_, _)
Consume(lines, output) ==
    IF lines = <<>> THEN [raised |-> FALSE, output |-> output]
    ELSE LET line == Head(lines)
         IN  IF line[1] = "blank" THEN Consume(Tail(lines), output)
             ELSE IF line[1] = "bad" THEN [raised |-> TRUE, output |-> output]
             ELSE IF line[1] = "frag" THEN Consume(Tail(lines), output \o line[2])
             ELSE Consume(Tail(lines), output)

\* faulty variant: what was accumulated is returned when the stream fails
ollama_generate_partial(resp) ==
    IF resp.fail # "none" THEN OLLAMA_ERROR
    ELSE LET got == Consume(resp.lines, "")
         IN  IF got.output = "" /\ (got.raised \/ resp.broken) THEN OLLAMA_ERROR
             ELSE strip(got.output)

\* try: post, raise_for_status, the loop, return output.strip();
\* except Exception as e: return f"[Error calling Ollama: {e}]"
ollama_generate(resp) ==
    IF resp.fail # "none" THEN OLLAMA_ERROR
    ELSE LET got == Consume(resp.lines, "")
         IN  IF got.raised \/ resp.broken THEN OLLAMA_ERROR ELSE strip(got.output)

\* the lines a response can be made of
Lines == {<<"blank">>, <<"nokey">>, <<"bad">>, <<"frag", "a">>, <<"frag", "b ">>}

RECURSIVE LineSeqs(_)
LineSeqs(n) ==
    IF n = 0 THEN {<<>>}
    ELSE LET shorter == LineSeqs(n - 1)
         IN  shorter \cup {Append(s, l) : s \in shorter, l \in Lines}

\* the responses given to ollama_generate on its own
GenResponses ==
    [fail : {"none"}, lines : LineSeqs(MaxLines), broken : BOOLEAN]
    \cup [fail : {"timeout", "connection", "http"}, lines : {<<>>}, broken : {FALSE}]

\* the responses of the backend during a run: a complete stream; a timeout;
\* an HTTP error status; a malformed line after a fragment; a transport
\* error after a fragment
RunResponses ==
    {[fail |-> "none", lines |-> <<<<"frag", "sum">>, <<"blank">>, <<"frag", "mary ">>, <<"nokey">>>>,
      broken |-> FALSE],
     [fail |-> "timeout", lines |-> <<>>, broken |-> FALSE],
     [fail |-> "http", lines |-> <<>>, broken |-> FALSE],
     [fail |-> "none", lines |-> <<<<"frag", "sum">>, <<"bad">>>>, broken |-> FALSE],
     [fail |-> "none", lines |-> <<<<"frag", "sum">>>>, broken |-> TRUE]}

NoResponse == [fail |-> "none", lines |-> <<>>, broken |-> FALSE]
NoGen == [resp |-> NoResponse, out |-> "", done |-> FALSE]

\* what ollama_generate returns during a run
GenerateResults == {ollama_generate(r) : r \in RunResponses}

\* faulty variant: a new key goes first
DictSetFront(d, k, v) == <<<<k, v>>>> \o d

\* d[k] = v on a dict kept as the sequence of its <<key, value>> items in
\* insertion order: a present key keeps its place, a new key goes last
DictSet(d, k, v) ==
    IF \E n \in 1..Len(d) : d[n][1] = k
    THEN [n \in 1..Len(d) |-> IF d[n][1] = k THEN <<k, v>> ELSE d[n]]
    ELSE Append(d, <<k, v>>)

DictKeys(d) == [n \in 1..Len(d) |-> d[n][1]]

Event(ev, kind, idx) == [ev |-> ev, file |-> i, kind |-> kind, idx |-> idx]

(***************************************************************************)
(* main: the file loop and ollama_summarize_text_blocks                    *)
(***************************************************************************)
\* "if not code_files": print, return (through finally)
NoFiles ==
    /\ pc = "check"
    /\ code_files = <<>>
    /\ outcome' = "no_files"
    /\ pc' = "finally"
    /\ UNCHANGED <<args, exists, tree, counter, dest, dirstate, repo_root, queue,
                   files, faults, code_files, i, file_summaries, blocks,
                   chunk_summaries, log, ct,
                   gen, scanned, removed>>

\* file_summaries = {} and the for loop starts
LoopEnter ==
    /\ pc = "check"
    /\ code_files # <<>>
    /\ file_summaries' = <<>>
    /\ i' = 1
    /\ pc' = "file"
    /\ UNCHANGED <<args, exists, tree, counter, dest, dirstate, repo_root, queue,
                   files, faults, code_files, blocks, chunk_summaries, log,
                   outcome, ct,
                   gen, scanned, removed>>

\* rel = os.path.relpath(fpath, repo_root)
rel == relpath(code_files[i], repo_root)

\* "if not content.strip()": the marker is recorded, continue
FileSkipped ==
    /\ pc = "file"
    /\ i <= Len(code_files)
    /\ strip(read_file(code_files[i])) = ""
    /\ file_summaries' = DictSet(file_summaries, rel, SENTINEL)
    /\ i' = i + 1
    /\ UNCHANGED <<pc, args, exists, tree, counter, dest, dirstate, repo_root, queue,
                   files, faults, code_files, blocks, chunk_summaries, log,
                   outcome, ct,
                   gen, scanned, removed>>

\* blocks = chunk_text(content, CHUNK_CHAR_SIZE) and
\* ollama_summarize_text_blocks is entered: chunk_summaries = []
FileChunked ==
    /\ pc = "file"
    /\ i <= Len(code_files)
    /\ strip(read_file(code_files[i])) # ""
    /\ blocks' = chunk_text(read_file(code_files[i]), CHUNK_CHAR_SIZE)
    /\ chunk_summaries' = <<>>
    /\ pc' = "chunk"
    /\ UNCHANGED <<args, exists, tree, counter, dest, dirstate, repo_root, queue,
                   files, faults, code_files, i, file_summaries, log, outcome, ct,
                   gen, scanned, removed>>

\* faulty variant: the loop is left after its first chunk
ChunksPendingFirstOnly == chunk_summaries = <<>> /\ blocks # <<>>

\* "for chunk in blocks" has a chunk left
ChunksPending == Len(chunk_summaries) < Len(blocks)

\* ollama_generate(prompt, model) is called for the next chunk
ChunkCall ==
    /\ pc = "chunk"
    /\ ChunksPending
    /\ log' = Append(log, Event("call", "chunk", Len(chunk_summaries) + 1))
    /\ pc' = "chunk_wait"
    /\ UNCHANGED <<args, exists, tree, counter, dest, dirstate, repo_root, queue,
                   files, faults, code_files, i, file_summaries, blocks,
                   chunk_summaries, outcome, ct,
                   gen, scanned, removed>>

\* the backend answers the request of the chunk call, in one of its ways
ChunkResponse ==
    /\ pc = "chunk_wait"
    /\ \E r \in RunResponses : gen' = [resp |-> r, out |-> "", done |-> FALSE]
    /\ pc' = "chunk_got"
    /\ UNCHANGED <<args, exists, tree, counter, dest, dirstate, repo_root, queue,
                   files, faults, code_files, i, file_summaries, blocks,
                   chunk_summaries, log, outcome, ct, scanned, removed>>

\* ollama_generate returns, genuine or degraded: chunk_summaries.append(text)
ChunkReturn ==
    /\ pc = "chunk_got"
    /\ chunk_summaries' = Append(chunk_summaries, ollama_generate(gen.resp))
    /\ gen' = NoGen
    /\ log' = Append(log, Event("ret", "chunk", Len(chunk_summaries) + 1))
    /\ pc' = "sleep"
    /\ UNCHANGED <<args, exists, tree, counter, dest, dirstate, repo_root, queue,
                   files, faults, code_files, i, file_summaries, blocks, outcome, ct,
                   scanned, removed>>

\* faulty variant: no sleep
NotSlept(l) == l

\* the log after time.sleep(0.2) at the end of the loop body
Slept(l) == Append(l, Event("sleep", "chunk", Len(chunk_summaries)))

ChunkSleep ==
    /\ pc = "sleep"
    /\ log' = Slept(log)
    /\ pc' = "chunk"
    /\ UNCHANGED <<args, exists, tree, counter, dest, dirstate, repo_root, queue,
                   files, faults, code_files, i, file_summaries, blocks,
                   chunk_summaries, outcome, ct,
                   gen, scanned, removed>>

\* the loop is over: ollama_generate(combined_prompt, model) is called
CombineCall ==
    /\ pc = "chunk"
    /\ ~ChunksPending
    /\ log' = Append(log, Event("call", "combine", Len(chunk_summaries) + 1))
    /\ pc' = "combine_wait"
    /\ UNCHANGED <<args, exists, tree, counter, dest, dirstate, repo_root, queue,
                   files, faults, code_files, i, file_summaries, blocks,
                   chunk_summaries, outcome, ct,
                   gen, scanned, removed>>

\* the backend answers the request of the combine call, in one of its ways
CombineResponse ==
    /\ pc = "combine_wait"
    /\ \E r \in RunResponses : gen' = [resp |-> r, out |-> "", done |-> FALSE]
    /\ pc' = "combine_got"
    /\ UNCHANGED <<args, exists, tree, counter, dest, dirstate, repo_root, queue,
                   files, faults, code_files, i, file_summaries, blocks,
                   chunk_summaries, log, outcome, ct, scanned, removed>>

\* ollama_generate returns, genuine or degraded, and so does
\* ollama_summarize_text_blocks: file_summaries[rel] = summ
CombineReturn ==
    /\ pc = "combine_got"
    /\ file_summaries' = DictSet(file_summaries, rel, ollama_generate(gen.resp))
    /\ gen' = NoGen
    /\ log' = Append(log, Event("ret", "combine", Len(chunk_summaries) + 1))
    /\ i' = i + 1
    /\ pc' = "file"
    /\ UNCHANGED <<args, exists, tree, counter, dest, dirstate, repo_root, queue,
                   files, faults, code_files, blocks, chunk_summaries, outcome, ct,
                   scanned, removed>>

\* the for loop is over: write_docx(...) is called and saves the document
SinkOk ==
    /\ pc = "file"
    /\ i > Len(code_files)
    /\ outcome' = "written"
    /\ pc' = "finally"
    /\ UNCHANGED <<args, exists, tree, counter, dest, dirstate, repo_root, queue,
                   files, faults, code_files, i, file_summaries, blocks,
                   chunk_summaries, log, ct,
                   gen, scanned, removed>>

\* the for loop is over: write_docx(...) is called and raises
SinkFail ==
    /\ pc = "file"
    /\ i > Len(code_files)
    /\ outcome' = "sink_failed"
    /\ pc' = "finally"
    /\ UNCHANGED <<args, exists, tree, counter, dest, dirstate, repo_root, queue,
                   files, faults, code_files, i, file_summaries, blocks,
                   chunk_summaries, log, ct,
                   gen, scanned, removed>>

\* finally: args.keep, the clone is kept
FinallyKeep ==
    /\ pc = "finally"
    /\ args.keep
    /\ pc' = "done"
    /\ UNCHANGED <<args, exists, tree, counter, dest, dirstate, repo_root, queue,
                   files, faults, code_files, i, file_summaries, blocks,
                   chunk_summaries, log, outcome, ct,
                   gen, scanned, removed>>

\* faulty variant: the directory asked for with --tmp is removed
RemoveTargetTmp == args.tmp

\* the argument of shutil.rmtree: repo_root, the path clone_repo returned
RemoveTarget == dest

\* finally: shutil.rmtree(repo_root) removes the clone
FinallyRemove ==
    /\ pc = "finally"
    /\ ~args.keep
    /\ removed' = removed \cup {RemoveTarget}
    /\ dirstate' = IF RemoveTarget = dest THEN "removed" ELSE dirstate
    /\ pc' = "done"
    /\ UNCHANGED <<args, exists, tree, counter, dest, repo_root, queue, files, faults,
                   code_files, i, file_summaries, blocks, chunk_summaries, log,
                   outcome, ct, gen, scanned>>

\* finally: shutil.rmtree(repo_root) raises, "except Exception: pass"
FinallyRemoveFails ==
    /\ pc = "finally"
    /\ ~args.keep
    /\ pc' = "done"
    /\ UNCHANGED <<args, exists, tree, counter, dest, dirstate, repo_root, queue,
                   files, faults, code_files, i, file_summaries, blocks,
                   chunk_summaries, log, outcome, ct,
                   gen, scanned, removed>>

(***************************************************************************)
(* chunk_text on its own                                                   *)
(***************************************************************************)
ChunkApply ==
    /\ pc = "chunk_text"
    /\ ~ct.done
    /\ ct' = [ct EXCEPT !.out = chunk_text(ct.text, ct.size), !.done = TRUE]
    /\ UNCHANGED <<pc, args, exists, tree, counter, dest, dirstate, repo_root, queue,
                   files, faults, code_files, i, file_summaries, blocks,
                   chunk_summaries, log, outcome,
                   gen, scanned, removed>>

(***************************************************************************)
(* ollama_generate on its own                                              *)
(***************************************************************************)
GenerateApply ==
    /\ pc = "generate"
    /\ ~gen.done
    /\ gen' = [gen EXCEPT !.out = ollama_generate(gen.resp), !.done = TRUE]
    /\ UNCHANGED <<pc, args, exists, tree, counter, dest, dirstate, repo_root, queue,
                   files, faults, code_files, i, file_summaries, blocks,
                   chunk_summaries, log, outcome, ct, scanned, removed>>

(***************************************************************************)
(* Specifications                                                          *)
(***************************************************************************)
\* the variables a study of one function does not use
NoArgs == [tmp |-> "Code_Repository", keep |-> FALSE]
NoChunk == [text |-> "", size |-> 1, out |-> <<>>, done |-> FALSE]

InitLocals ==
    /\ counter = 0
    /\ dest = ""
    /\ dirstate = "absent"
    /\ files = <<>>
    /\ faults = {}
    /\ code_files = <<>>
    /\ i = 0
    /\ file_summaries = <<>>
    /\ blocks = <<>>
    /\ chunk_summaries = <<>>
    /\ log = <<>>
    /\ outcome = ""
    /\ scanned = <<>>
    /\ removed = {}

\* main() after parse_args: any --tmp, any --keep, any of P, P_1 .. on disk
Init ==
    /\ pc = "start"
    /\ args \in [tmp : TmpNames, keep : BOOLEAN]
    /\ exists \in SUBSET ({args.tmp} \cup {Suffixed(args.tmp, k) : k \in 1..MaxSuffix})
    /\ tree = {}
    /\ repo_root = <<>>
    /\ queue = <<>>
    /\ ct = NoChunk
    /\ gen = NoGen
    /\ InitLocals

Next ==
    \/ UniqueFree \/ UniqueTaken \/ ProbeTaken \/ ProbeFree
    \/ CloneOk \/ CloneFail
    \/ BfsEnter \/ BfsScan \/ BfsDenied \/ BfsRaise \/ BfsReturn
    \/ NoFiles \/ LoopEnter \/ FileSkipped \/ FileChunked
    \/ ChunkCall \/ ChunkResponse \/ ChunkReturn \/ ChunkSleep
    \/ CombineCall \/ CombineResponse \/ CombineReturn
    \/ SinkOk \/ SinkFail
    \/ FinallyKeep \/ FinallyRemove \/ FinallyRemoveFails

Spec == Init /\ [][Next]_vars

\* find_code_files_bfs(root) on its own: any root, any tree
Roots == {<<"work", "repo">>, <<"work", "build">>, <<"env", "repo">>}

InitBfs ==
    /\ pc = "bfs"
    /\ args = NoArgs
    /\ exists = {}
    /\ tree \in BfsTrees
    /\ repo_root \in Roots
    /\ queue = <<repo_root>>
    /\ ct = NoChunk
    /\ gen = NoGen
    /\ InitLocals

NextBfs == BfsScan \/ BfsDenied \/ BfsRaise \/ BfsReturn

SpecBfs == InitBfs /\ [][NextBfs]_vars

\* chunk_text(text, size) on its own: any text, any size >= 1
InitChunk ==
    /\ pc = "chunk_text"
    /\ args = NoArgs
    /\ exists = {}
    /\ tree = {}
    /\ repo_root = <<>>
    /\ queue = <<>>
    /\ ct \in [text : Strings({"a", "b"}, MaxLen), size : 1..MaxChunk,
                out : {<<>>}, done : {FALSE}]
    /\ gen = NoGen
    /\ InitLocals

NextChunk == ChunkApply

SpecChunk == InitChunk /\ [][NextChunk]_vars

\* ollama_generate(prompt, model) on its own: any behaviour of the backend
InitGen ==
    /\ pc = "generate"
    /\ args = NoArgs
    /\ exists = {}
    /\ tree = {}
    /\ repo_root = <<>>
    /\ queue = <<>>
    /\ ct = NoChunk
    /\ gen \in [resp : GenResponses, out : {""}, done : {FALSE}]
    /\ InitLocals

NextGen == GenerateApply

SpecGen == InitGen /\ [][NextGen]_vars

\* ollama_summarize_text_blocks(blocks, file_path) on its own, called for
\* the only file of a tree: any list of blocks, the empty one included
RECURSIVE BlockLists(_)
BlockLists(n) ==
    IF n = 0 THEN {<<>>}
    ELSE LET shorter == BlockLists(n - 1)
         IN  shorter \cup {Append(b, c) : b \in shorter, c \in {"x", "y"}}

InitSumm ==
    /\ pc = "chunk"
    /\ args = NoArgs
    /\ exists = {}
    /\ tree = {[path |-> <<"a.py">>, dir |-> FALSE, data |-> "x"]}
    /\ repo_root = <<"work", "repo">>
    /\ queue = <<>>
    /\ ct = NoChunk
    /\ gen = NoGen
    /\ counter = 0
    /\ dest = "repo"
    /\ dirstate = "present"
    /\ files = <<<<"work", "repo", "a.py">>>>
    /\ faults = {}
    /\ code_files = files
    /\ i = 1
    /\ file_summaries = <<>>
    /\ blocks \in BlockLists(MaxBlocks)
    /\ chunk_summaries = <<>>
    /\ log = <<>>
    /\ outcome = ""
    /\ scanned = <<>>
    /\ removed = {}

NextSumm ==
    \/ ChunkCall \/ ChunkResponse \/ ChunkReturn \/ ChunkSleep
    \/ CombineCall \/ CombineResponse \/ CombineReturn

SpecSumm == InitSumm /\ [][NextSumm]_vars

(***************************************************************************)
(* Properties of chunk_text                                                *)
(***************************************************************************)
CeilDiv(a, b) == (a + b - 1) \div b

\* C1: for every text and every size >= 1 the slices of chunk_text(text, size),
\* concatenated in index order, are the text, and there are ceil(len/size) of
\* them for a non-empty text and none for the empty text.
C1_ChunkCoverage ==
    ct.done =>
        /\ Join(ct.out) = ct.text
        /\ Len(ct.out) = IF ct.text = "" THEN 0 ELSE CeilDiv(Len(ct.text), ct.size)

\* chunk_text has been applied to a text that leaves a remainder after two or
\* more slices
C1_Witness ==
    /\ ct.done
    /\ Len(ct.text) % ct.size # 0
    /\ Len(ct.out) >= 2
    /\ ct.size >= 2

\* C7: for a non-empty text every slice but the last has exactly size
\* characters and the last has between 1 and size; none is empty or longer.
C7_SliceSizes ==
    (ct.done /\ ct.text # "") =>
        /\ Len(ct.out) >= 1
        /\ \A k \in 1..(Len(ct.out) - 1) : Len(ct.out[k]) = ct.size
        /\ Len(ct.out[Len(ct.out)]) \in 1..ct.size

\* three slices, the last one shorter than the others
C7_Witness ==
    /\ ct.done
    /\ Len(ct.out) = 3
    /\ Len(ct.out[3]) < ct.size

(***************************************************************************)
(* Properties of get_unique_repo_path and clone_repo                       *)
(***************************************************************************)
\* C8: when P exists the destination is P_k for the smallest k >= 1 such that
\* P_k does not exist, when P does not exist it is P; the destination never
\* is a path that exists, and clone_repo clones into it and returns it.
C8_UniqueDestination ==
    (dest # "") =>
        /\ dest \notin exists
        /\ (args.tmp \notin exists) => (dest = args.tmp)
        /\ (args.tmp \in exists) =>
              \E k \in 1..(MaxSuffix + 1) :
                 /\ dest = args.tmp \o "_" \o ToString(k)
                 /\ \A m \in 1..(k - 1) : (args.tmp \o "_" \o ToString(m)) \in exists
        /\ (repo_root # <<>>) => (repo_root = Append(Cwd, dest))

\* P and P_1 exist, and the repository has been cloned into P_2
C8_Witness ==
    /\ {args.tmp, args.tmp \o "_1"} \subseteq exists
    /\ dest = args.tmp \o "_2"
    /\ repo_root = Append(Cwd, dest)
    /\ dirstate = "present"

(***************************************************************************)
(* Properties of find_code_files_bfs                                       *)
(***************************************************************************)
Segments(p) == {p[k] : k \in 1..Len(p)}

\* find_code_files_bfs has returned
Returned == pc \notin {"start", "probe", "clone", "try", "bfs", "chunk_text"} /\ outcome # "error"
           /\ outcome # "clone_failed"

\* C2 as stated: no returned path has a segment named in EXCLUDE_DIRS,
\* whatever the root is named or located under.
C2_NoExcludedSegment ==
    Returned =>
        \A n \in 1..Len(code_files) : Segments(code_files[n]) \cap EXCLUDE_DIRS = {}

\* C2, amended: no returned path has a segment named in EXCLUDE_DIRS below
\* the root, that is in its path relative to the root.
C2_NoExcludedSegmentBelowRoot ==
    Returned =>
        \A n \in 1..Len(code_files) :
            Segments(relpath(code_files[n], repo_root)) \cap EXCLUDE_DIRS = {}

\* the root itself is named like an excluded directory, a code file lies
\* under an excluded directory of the tree, every directory was readable, and
\* the traversal has returned another file
C2_Witness ==
    /\ Returned
    /\ code_files # <<>>
    /\ Segments(repo_root) \cap EXCLUDE_DIRS # {}
    /\ \E e \in tree : /\ Collected(e)
                        /\ \E k \in 1..(Len(e.path) - 1) : e.path[k] \in EXCLUDE_DIRS
    /\ faults = {}

\* C5: the returned list is sorted by non-decreasing file size.
C5_SortedBySize ==
    Returned =>
        \A a, b \in 1..Len(code_files) :
            a < b => getsize(code_files[a]) <= getsize(code_files[b])

\* the traversal found a larger file before a smaller one, and has returned
C5_Witness ==
    /\ Returned
    /\ \E a, b \in 1..Len(files) : a < b /\ getsize(files[a]) > getsize(files[b])

(***************************************************************************)
(* Properties of main's file loop                                          *)
(***************************************************************************)
\* the for loop of main has finished (the sink is about to be, or was, called)
LoopFinished ==
    \/ pc = "file" /\ i > Len(code_files)
    \/ outcome \in {"written", "sink_failed"}

Degraded(summary) == summary \in {OLLAMA_ERROR, SENTINEL}

\* C3: after the file loop, whatever the backend returned, file_summaries has
\* exactly one entry per file of code_files, keyed by its path relative to
\* the root, in the order of code_files.
C3_OneEntryPerFile ==
    LoopFinished =>
        /\ Len(file_summaries) = Len(code_files)
        /\ \A n \in 1..Len(code_files) :
              file_summaries[n][1] = relpath(code_files[n], repo_root)

\* the loop finished over two files and no summary is genuine
C3_Witness ==
    /\ LoopFinished
    /\ Len(code_files) = 2
    /\ \A n \in 1..Len(file_summaries) : Degraded(file_summaries[n][2])
    /\ \E n \in 1..Len(file_summaries) : file_summaries[n][2] = OLLAMA_ERROR

\* the bytes of the file are empty, or are not valid UTF-8
Unreadable(p) ==
    LET bytes == EntryAt(p).data
    IN  bytes = "" \/ \E k \in 1..Len(bytes) : Char(bytes, k) = "#"

\* C4: for a discovered file that is zero-byte or undecodable no backend call
\* is ever made, and once the loop has passed it its entry is the marker.
C4_UnreadableNeverSent ==
    Returned =>
        \A n \in 1..Len(code_files) :
            Unreadable(code_files[n]) =>
                /\ \A k \in 1..Len(log) : log[k].file # n
                /\ (n < i) =>
                      \E m \in 1..Len(file_summaries) :
                         file_summaries[m] = <<relpath(code_files[n], repo_root), SENTINEL>>

\* the loop finished over an undecodable file and a file that was summarized
C4_Witness ==
    /\ LoopFinished
    /\ \E n \in 1..Len(code_files) : EntryAt(code_files[n]).data = "x#"
    /\ log # <<>>

\* C6: once acquisition has succeeded, a run in which at least one file was
\* discovered reaches write_docx; put the other way round, a run stops before
\* write_docx only when discovery found no file at all.
C6_OnlyNoFilesStops ==
    (pc = "done" /\ repo_root # <<>> /\ files # <<>>) =>
        outcome \in {"written", "sink_failed"}

(***************************************************************************)
(* Properties of the sequence of backend calls                             *)
(***************************************************************************)
CallPos == {p \in 1..Len(log) : log[p].ev = "call"}

\* p and q are the positions of two consecutive calls
Consecutive(p, q) == p < q /\ \A r \in CallPos : ~(p < r /\ r < q)

\* the number of chunks of the n-th file of code_files
NumChunks(n) == Len(chunk_text(read_file(code_files[n]), CHUNK_CHAR_SIZE))

\* C9: the backend calls are strictly ordered: a call starts only after the
\* call before it has returned; files are called for in the order of
\* code_files; the chunk calls of a file come in increasing index; and the
\* combine call of a file comes after all its chunk calls have returned.
C9_CallOrder ==
    /\ \A p \in CallPos :
          (p < Len(log)) => log[p + 1] = [log[p] EXCEPT !.ev = "ret"]
    /\ \A p, q \in CallPos :
          (p < q) =>
             \/ log[p].file < log[q].file
             \/ log[p].file = log[q].file /\ log[p].idx < log[q].idx
    /\ \A q \in CallPos :
          /\ log[q].kind = "chunk" => log[q].idx \in 1..NumChunks(log[q].file)
          /\ log[q].kind = "combine" =>
                \A k \in 1..NumChunks(log[q].file) :
                   \E p \in 1..(q - 1) :
                      log[p] = [ev |-> "ret", file |-> log[q].file,
                                kind |-> "chunk", idx |-> k]

\* the combine call of the second file, which has two chunks, has returned
C9_Witness ==
    /\ \E p \in 1..Len(log) :
          log[p].ev = "ret" /\ log[p].kind = "combine" /\ log[p].file = 2
    /\ Len(code_files) = 2
    /\ NumChunks(2) = 2

SleepBetween(p, q) == \E r \in (p + 1)..(q - 1) : log[r].ev = "sleep"

\* C10 as stated: a pacing delay occurs between every two consecutive calls.
C10_SleepBetweenAllCalls ==
    \A p, q \in CallPos : Consecutive(p, q) => SleepBetween(p, q)

\* C10, amended: a pacing delay occurs after every chunk call, so between
\* successive chunk calls and between the last chunk call of a file and its
\* combine call; none occurs between the combine call of a file and the
\* first chunk call of the next file.
C10_SleepAfterChunkCallsOnly ==
    \A p, q \in CallPos :
        Consecutive(p, q) =>
            /\ (log[p].kind = "chunk") =>
                  (log[q].file = log[p].file /\ SleepBetween(p, q))
            /\ (log[p].kind = "combine") =>
                  (log[q].file # log[p].file /\ ~SleepBetween(p, q))

\* the first file was combined, and the second file's two chunk calls and
\* its combine call have been made
C10_Witness ==
    /\ \E p, q \in CallPos :
          Consecutive(p, q) /\ log[p].kind = "combine" /\ log[q].file = 2
    /\ \E q \in CallPos : log[q].file = 2 /\ log[q].kind = "combine" /\ log[q].idx = 3

(***************************************************************************)
(* Properties of ollama_generate                                           *)
(***************************************************************************)
\* the lines read before the stream fails: those before the first bad line
RECURSIVE ReadLines(_)
ReadLines(lines) ==
    IF lines = <<>> \/ Head(lines)[1] = "bad" THEN <<>>
    ELSE <<Head(lines)>> \o ReadLines(Tail(lines))

IsFrag(line) == line[1] = "frag"

\* the fragments received, in arrival order
Fragments(resp) ==
    LET fr == SelectSeq(ReadLines(resp.lines), IsFrag)
    IN  [k \in 1..Len(fr) |-> fr[k][2]]

\* the stream was opened and ends abnormally: a malformed line, or a
\* transport error
AbnormalEnd(resp) ==
    /\ resp.fail = "none"
    /\ resp.broken \/ \E k \in 1..Len(resp.lines) : resp.lines[k][1] = "bad"

\* C11 as stated: when the stream ends abnormally after one or more fragments
\* ollama_generate returns the fragments received, concatenated in arrival
\* order, and the degraded marker only when nothing was received.
C11_PartialOutputReturned ==
    (gen.done /\ AbnormalEnd(gen.resp)) =>
        IF Fragments(gen.resp) # <<>>
        THEN gen.out \in {Join(Fragments(gen.resp)), strip(Join(Fragments(gen.resp)))}
        ELSE gen.out = OLLAMA_ERROR

\* C11, amended: when the stream ends abnormally ollama_generate returns the
\* degraded marker, whether or not fragments were received (what was
\* accumulated is dropped); the fragments concatenated in arrival order, and
\* stripped, are returned only when the stream ends normally.
C11_AbnormalEndDegraded ==
    gen.done =>
        /\ AbnormalEnd(gen.resp) => gen.out = OLLAMA_ERROR
        /\ (gen.resp.fail = "none" /\ ~AbnormalEnd(gen.resp)) =>
              gen.out = strip(Join(Fragments(gen.resp)))

\* two fragments were received, then the stream failed, and ollama_generate
\* has returned
C11_Witness ==
    /\ gen.done
    /\ AbnormalEnd(gen.resp)
    /\ Len(Fragments(gen.resp)) = 2
    /\ pc = "generate"

(***************************************************************************)
(* Properties of ollama_summarize_text_blocks                              *)
(***************************************************************************)
\* C12: given zero chunks, ollama_summarize_text_blocks makes no backend call
\* and returns a sentinel summary.
C12_NoCallForZeroChunks ==
    (blocks = <<>>) =>
        /\ CallPos = {}
        /\ (file_summaries # <<>>) => file_summaries[1][2] = SENTINEL

\* the call fails: timeout, transport error, HTTP error, malformed response
Failed(resp) == resp.fail # "none" \/ AbnormalEnd(resp)

CallEvents == SelectSeq(log, LAMBDA e : e.ev = "call")

\* the calls of a file of n chunks: n chunk calls, then one combine call
ExpectedCalls(n) ==
    [k \in 1..(n + 1) |->
        [ev |-> "call", file |-> 1, kind |-> IF k <= n THEN "chunk" ELSE "combine",
         idx |-> k]]

\* the calls made so far are the first of the expected ones, and all of them
\* once ollama_summarize_text_blocks has returned
CallsAsExpected ==
    (blocks # <<>>) =>
        LET expected == ExpectedCalls(Len(blocks))
        IN  /\ Len(CallEvents) <= Len(expected)
            /\ CallEvents = SubSeq(expected, 1, Len(CallEvents))
            /\ (file_summaries # <<>>) => CallEvents = expected

\* a failed call returns the degraded string, which is collected like a
\* summary, and the function goes on
FailureCollected ==
    /\ (pc = "chunk_got" /\ Failed(gen.resp)) =>
          (chunk_summaries' = Append(chunk_summaries, OLLAMA_ERROR) /\ pc' = "sleep")
    /\ (pc = "combine_got" /\ Failed(gen.resp)) =>
          (file_summaries' = DictSet(file_summaries, rel, OLLAMA_ERROR) /\ pc' = "file")

\* C13: for n >= 1 chunks there are exactly n chunk calls followed by exactly
\* one combine call, whichever of them fail: a failed call yields the
\* degraded string, collected in place of the summary, no exception leaves
\* ollama_generate, and the remaining chunks and the combine call follow.
C13_FailuresIsolated == []CallsAsExpected /\ [][FailureCollected]_vars

\* two chunks: both chunk calls and the combine call failed, and the function
\* has returned
C13_Witness ==
    /\ Len(blocks) = 2
    /\ chunk_summaries = <<OLLAMA_ERROR, OLLAMA_ERROR>>
    /\ file_summaries # <<>>
    /\ file_summaries[1][2] = OLLAMA_ERROR
    /\ Len(CallEvents) = 3

(***************************************************************************)
(* Properties of what main records for a file                              *)
(***************************************************************************)
OnlyWhitespace(s) == \A k \in 1..Len(s) : IsSpace(Char(s, k))

\* the value recorded under the relative path of the n-th file
RecordedFor(n) ==
    {e[2] : e \in {file_summaries[m] : m \in {m \in 1..Len(file_summaries) :
                       file_summaries[m][1] = relpath(code_files[n], repo_root)}}}

CallsFor(n) == {p \in CallPos : log[p].file = n}

\* the n-th file went to ollama_summarize_text_blocks: one call per chunk and
\* the combine call, and what the backend calls gave is recorded
Summarized(n) ==
    /\ Cardinality(CallsFor(n)) = NumChunks(n) + 1
    /\ RecordedFor(n) \subseteq GenerateResults
    /\ RecordedFor(n) # {}

\* the n-th file was passed over: no call, and the marker is recorded
Marked(n) == CallsFor(n) = {} /\ RecordedFor(n) = {SENTINEL}

\* C14 as stated: every file the loop has passed whose content has length >= 1
\* (whitespace-only content included) was summarized, and the marker is
\* recorded only for content of length 0.
C14_NonEmptySummarized ==
    \A n \in 1..Len(code_files) :
        (n < i) =>
            IF read_file(code_files[n]) = "" THEN Marked(n) ELSE Summarized(n)

\* C14: every file the loop has passed whose content has a character that is
\* not whitespace was summarized and the result is recorded under its
\* relative path; the marker is recorded, and no call made, when the content
\* is empty, could not be read, or is made only of whitespace.
C14_NonBlankSummarized ==
    \A n \in 1..Len(code_files) :
        (n < i) =>
            IF OnlyWhitespace(read_file(code_files[n])) THEN Marked(n)
            ELSE Summarized(n)

\* the loop has passed a whitespace-only file and a file that was summarized
C14_Witness ==
    /\ \E n \in 1..Len(code_files) :
          n < i /\ EntryAt(code_files[n]).data = " " /\ Marked(n)
    /\ \E n \in 1..Len(code_files) :
          n < i /\ ~OnlyWhitespace(read_file(code_files[n])) /\ Summarized(n)

(***************************************************************************)
(* Properties of the cleanup                                               *)
(***************************************************************************)
\* C15: without --keep, however the run ends (success, no files, sink
\* failure, clone failing part-way) the directory created for the run is not
\* left behind; with --keep the directory is never removed.
C15_CleanupOnEveryExit ==
    (pc = "done") =>
        IF args.keep THEN dirstate # "removed" ELSE dirstate # "present"

(***************************************************************************)
(* Properties of the traversal as a whole                                  *)
(***************************************************************************)
\* the directories above entry e, the root included, as absolute paths
Ancestors(e) == {repo_root \o SubSeq(e.path, 1, k) : k \in 0..(Len(e.path) - 1)}

\* no directory between the root and entry e is named in EXCLUDE_DIRS
NotUnderExcluded(e) == \A k \in 1..(Len(e.path) - 1) : e.path[k] \notin EXCLUDE_DIRS

\* a file the traversal is to return
Eligible(e) ==
    /\ ~e.dir
    /\ lower(splitext_ext(e.path[Len(e.path)])) \in CODE_EXTENSIONS
    /\ NotUnderExcluded(e)

\* a directory the traversal is to scan
Scannable(e) == e.dir /\ e.path[Len(e.path)] \notin EXCLUDE_DIRS /\ NotUnderExcluded(e)

\* C16: a directory that cannot be listed, for whatever I/O error, is skipped
\* without find_code_files_bfs raising, and the eligible files of which every
\* directory above them could be listed are returned.
C16_UnlistableSkipped ==
    /\ outcome # "error"
    /\ Returned =>
          \A e \in tree :
              (Eligible(e) /\ Ancestors(e) \cap faults = {}) =>
                  \E n \in 1..Len(code_files) : code_files[n] = repo_root \o e.path

\* C17: when every directory can be listed, find_code_files_bfs returns
\* exactly the eligible files, each once; each directory that is the root or
\* is neither excluded nor below an excluded directory is scanned exactly
\* once; and nothing else is scanned.
C17_ExactlyEligible ==
    (faults = {} /\ outcome # "error") =>
        /\ \A a, b \in 1..Len(scanned) : a # b => scanned[a] # scanned[b]
        /\ {scanned[k] : k \in 1..Len(scanned)} \subseteq
              {repo_root} \cup {repo_root \o e.path : e \in {d \in tree : Scannable(d)}}
        /\ Returned =>
              /\ {code_files[n] : n \in 1..Len(code_files)} =
                    {repo_root \o e.path : e \in {f \in tree : Eligible(f)}}
              /\ \A a, b \in 1..Len(code_files) : a # b => code_files[a] # code_files[b]
              /\ {scanned[k] : k \in 1..Len(scanned)} =
                    {repo_root} \cup {repo_root \o e.path : e \in {d \in tree : Scannable(d)}}

\* the traversal has returned a file in a sub-directory whose extension is in
\* upper case, and the tree has an excluded directory, which was not scanned
C17_Witness ==
    /\ Returned
    /\ faults = {}
    /\ \E n \in 1..Len(code_files) :
          /\ Len(code_files[n]) > Len(repo_root) + 1
          /\ splitext_ext(code_files[n][Len(code_files[n])]) \notin CODE_EXTENSIONS
    /\ \E d \in tree : d.dir /\ d.path[Len(d.path)] \in EXCLUDE_DIRS
    /\ Len(scanned) = 2

(***************************************************************************)
(* Properties of what the run removes                                      *)
(***************************************************************************)
\* C18: a run removes at most one directory, the one clone_repo returned for
\* this run, and never one that existed when the run started (the requested
\* destination or an earlier suffixed one), with or without --keep and however
\* the run ends.
C18_RemovesOnlyOwnClone ==
    /\ Cardinality(removed) <= 1
    /\ removed \cap exists = {}
    /\ (removed # {}) => (removed = {dest} /\ repo_root = Append(Cwd, dest) /\ ~args.keep)

\* the requested destination existed, the run cloned into a suffixed name and
\* has ended having removed it
C18_Witness ==
    /\ pc = "done"
    /\ args.tmp \in exists
    /\ removed = {dest}
    /\ dest # args.tmp

====
